---- MODULE Spec2Model ----
(***************************************************************************)
(* Model of the Google Drive inventory scripts create_directory.py         *)
(* ("directory" mode) and create_index.py ("index" mode): the paged,       *)
(* retrying lister (get_folder_contents / get_folder_metadata), the        *)
(* recursive walker (get_metadata / traverse_folder), write_csv and the    *)
(* __main__ entry point.  Strings that the code takes apart (names and     *)
(* paths) are sequences of one-character strings.  A process position is   *)
(* kept between the blocking points of the code: the remote list call and  *)
(* the backoff sleep.  Next to the export of the chosen mode the model     *)
(* keeps the data of the export of the other mode, in the variables named  *)
(* peer_.., run side by side against the same service.                     *)
(***************************************************************************)
EXTENDS Integers, Sequences, FiniteSets, TLC

(***************************************************************************)
(* Bounds of the model.                                                    *)
(***************************************************************************)
MaxItems == 3        \* files plus folders below the root
MaxPageLen == 2      \* items in one page: the service sends pages of 1 or of MaxPageLen
MaxThrottledPages == 2  \* page requests of one run that the service rate-limits
RandRes == 2         \* random.random() takes the values r / RandRes, r < RandRes
MaxRetriesArg == 8   \* largest max_retries a direct call of the lister passes

(***************************************************************************)
(* Constants of the program.                                               *)
(***************************************************************************)
DefaultMaxRetries == 7
MaxSleepCap == 64
RateLimitStatus == 429
OkStatus == 200
FolderMime == "application/vnd.google-apps.folder"
FileMime == "text/plain"
sep == "/"
RootId == 0
RootLabel == <<"R">>
NoToken == 0

\* Statuses of an HttpError that is not the rate limit.
OtherStatuses == {403, 500}

\* exception state: None, HttpError(status) or RuntimeError
NoError == [type |-> "None", status |-> 0]
HttpError(st) == [type |-> "HttpError", status |-> st]
RuntimeError == [type |-> "RuntimeError", status |-> 0]

\* the column list write_csv hands to csv.DictWriter
fieldnames ==
  <<"name", "path", "id", "link", "type", "is_folder", "size_kb", "owner",
    "created_date", "last_modified_date">>

(***************************************************************************)
(* The remote drive: items 1..n below the root RootId; parent[i] < i keeps  *)
(* the tree finite and cycle-free; children are listed in ascending id.    *)
(* Ids follow the breadth-first numbering (parent[i] <= parent[i+1]), of   *)
(* which every ordered tree has exactly one.                               *)
(***************************************************************************)
NameTables ==
  { << <<"a">>, <<"b">>, <<"a">>, <<"/", "c">> >>,
    << <<"a">>, <<"a", "/", "b">>, <<"b">>, <<"c">> >>,
    << <<"b", "/">>, <<"/", "a">>, <<"a">>, <<"a">> >> }

\* the "size" field of a file resource: a decimal string, or no field at all
Size(ds) == [present |-> TRUE, digits |-> ds]
NoSize == [present |-> FALSE, digits |-> <<>>]

\* the sizes of the walk-through of the documentation: 500000 bytes, none, ..
ScenarioSizes == <<Size(<<5, 0, 0, 0, 0, 0>>), NoSize, Size(<<1, 2, 8>>), Size(<<0>>)>>

SizeTables ==
  { ScenarioSizes,
    <<Size(<<3, 8, 4>>), Size(<<1, 0, 3, 0>>), NoSize, Size(<<2, 0, 4, 7>>)>>,
    <<Size(<<0>>), Size(<<1, 5, 3, 6>>), Size(<<5>>), Size(<<1, 2, 8>>)>> }

Drives ==
  UNION { { [n |-> k, parent |-> p, mime |-> m] :
              p \in { q \in [1..k -> 0..MaxItems] :
                        /\ \A i \in 1..k : q[i] < i
                        /\ \A i \in 1..(k - 1) : q[i] <= q[i + 1] },
              m \in [1..k -> {FolderMime, FileMime}] } : k \in 0..MaxItems }

WellFormed(d) ==
  \A i \in 1..d.n : d.parent[i] = RootId \/ d.mime[d.parent[i]] = FolderMime

Folders(d) == {RootId} \cup { i \in 1..d.n : d.mime[i] = FolderMime }

NameOf(tbl, i) == tbl[((i - 1) % Len(tbl)) + 1]

SizeOf(tbl, i) == tbl[((i - 1) % Len(tbl)) + 1]

Min(a, b) == IF a < b THEN a ELSE b

\* ids of the direct children of folder f, in listing order
Children(d, f) ==
  SelectSeq([i \in 1..d.n |-> i], LAMBDA i : d.parent[i] = f)

VARIABLES
  drive,          \* the remote tree
  names,          \* the name table of the remote items
  sizes,          \* the size table of the remote items
  page_len,       \* items per page the service returns
  mode,           \* "directory" (create_directory.py) or "index" (create_index.py)
  main_pc,        \* position of __main__: "run", "complete", "aborted"; "direct" for a bare lister call
  stack,          \* activation records of get_metadata / traverse_folder, top last
  metadata_rows,  \* the accumulator
  csv_file,       \* the output file
  lister_pc,      \* "idle", "retry_loop", "sleeping", "returned", "raised"
  folder_id,      \* lister: argument
  max_retries,    \* lister: argument
  items,          \* lister: local
  page_token,     \* lister: local
  attempt,        \* lister: loop variable of the for loop
  sleep_time,     \* exponential_backoff_sleep: local, in units of 1/RandRes s
  error,          \* the exception in flight
  pages,          \* history: the pages the current lister call has received, as (token, next token)
  responses,      \* history: the answers to the requests for the page last requested
  sleeps,         \* history: retry_count of the backoff sleeps for the page last requested
  throttled,      \* history: page requests of the run that were rate-limited
  listed,         \* history: folders whose listing has returned, in order
  peer_folder_id, \* the export of the other mode, run side by side: lister argument
  peer_items,     \* the export of the other mode: lister local
  peer_stack,     \* the export of the other mode: activation records of its walker
  peer_rows       \* the export of the other mode: its accumulator

vars ==
  <<drive, names, sizes, page_len, mode, main_pc, stack, metadata_rows, csv_file,
    lister_pc, folder_id, max_retries, items, page_token, attempt, sleep_time,
    error, pages, responses, sleeps, throttled, listed, peer_folder_id,
    peer_items, peer_stack, peer_rows>>

peer_vars == <<peer_folder_id, peer_items, peer_stack, peer_rows>>
env_vars == <<drive, names, sizes, page_len, mode>>
lister_vars == <<lister_pc, folder_id, max_retries, items, page_token, attempt, sleep_time>>

(***************************************************************************)
(* The remote service: files().list(q, pageSize, fields, pageToken).       *)
(* A token is the index of the first child of the next page.               *)
(***************************************************************************)
FileResource(i) ==
  [id |-> i, name |-> NameOf(names, i), mimeType |-> drive.mime[i],
   size |-> SizeOf(sizes, i),
   webViewLink |-> [prefix |-> "webViewLink", id |-> i, suffix |-> ""]]

ServiceList(f, token) ==
  LET ch == Children(drive, f)
      first == IF token = NoToken THEN 1 ELSE token
      last == Min(first + page_len - 1, Len(ch))
  IN [files |-> [k \in 1..(last - first + 1) |-> FileResource(ch[first + k - 1])],
      nextPageToken |-> IF last < Len(ch) THEN last + 1 ELSE NoToken]

(***************************************************************************)
(* Pure functions of the program.                                          *)
(***************************************************************************)
startswith(s, c) == Len(s) > 0 /\ s[1] = c
endswith(s, c) == Len(s) > 0 /\ s[Len(s)] = c

\* os.path.join(a, b) (posixpath)
join(a, b) ==
  IF startswith(b, sep) THEN b
  ELSE IF a = <<>> \/ endswith(a, sep) THEN a \o b
  ELSE a \o <<sep>> \o b

\* max_sleep = min(2**retry_count, 64)
max_sleep(retry_count) == Min(2 ^ retry_count, MaxSleepCap)

uniform_closed(a, b) == { a * RandRes + (b - a) * r : r \in 0..RandRes }

\* random.uniform(a, b) = a + (b - a) * random(), random() in [0, 1)
uniform(a, b) == { a * RandRes + (b - a) * r : r \in 0..(RandRes - 1) }

in_range_inclusive(k, n) == 0 <= k /\ k <= n

\* range(max_retries): whether the for loop has an iteration for this index
in_range(k, n) == 0 <= k /\ k < n

create_share_link_file_only(item) ==
  [prefix |-> "https://drive.google.com/file/d/", id |-> item.id,
   suffix |-> "?usp=drivesdk"]

create_share_link(item) ==
  IF item.is_folder
  THEN [prefix |-> "https://drive.google.com/drive/folders/", id |-> item.id,
        suffix |-> "?usp=drivesdk"]
  ELSE [prefix |-> "https://drive.google.com/file/d/", id |-> item.id,
        suffix |-> "?usp=drivesdk"]

RECURSIVE int(_)
\* int(s) of a decimal string
int(s) ==
  IF s = <<>> THEN 0 ELSE 10 * int(SubSeq(s, 1, Len(s) - 1)) + s[Len(s)]

round_half_up(n, d) == IF 2 * (n % d) >= d THEN (n \div d) + 1 ELSE n \div d

\* the integer nearest to n / d, the even one of two equally near: what
\* round() does with a value that is exact in binary
round_half_even(n, d) ==
  LET q == n \div d
      r == n % d
  IN IF 2 * r < d THEN q
     ELSE IF 2 * r > d THEN q + 1
     ELSE IF q % 2 = 0 THEN q ELSE q + 1

\* round(size / 1024, 2), in hundredths; size / 1024 is exact in binary
round2_kb(size) == round_half_even(size * 100, 1024)

\* the export run side by side with the export of mode m
other(m) == IF m = "directory" THEN "index" ELSE "directory"

make_item_of_index_no_folders(m, f) ==
  LET is_folder == f.mimeType = FolderMime
      size == IF f.size.present THEN int(f.size.digits) ELSE 0
      size_kb == IF ~is_folder THEN round2_kb(size) ELSE 0
  IN IF m = "index"
     THEN [id |-> f.id, name |-> f.name, link |-> f.webViewLink,
           type |-> f.mimeType, is_folder |-> FALSE, size_kb |-> size_kb]
     ELSE [id |-> f.id, name |-> f.name, type |-> f.mimeType,
           is_folder |-> is_folder, size_kb |-> size_kb]

\* the dictionary the lister of export m appends for one file resource
make_item_of(m, f) ==
  LET is_folder == f.mimeType = FolderMime
      size == IF f.size.present THEN int(f.size.digits) ELSE 0
      size_kb == IF ~is_folder THEN round2_kb(size) ELSE 0
  IN IF m = "index"
     THEN [id |-> f.id, name |-> f.name, link |-> f.webViewLink,
           type |-> f.mimeType, is_folder |-> is_folder, size_kb |-> size_kb]
     ELSE [id |-> f.id, name |-> f.name, type |-> f.mimeType,
           is_folder |-> is_folder, size_kb |-> size_kb]

make_item(f) == make_item_of(mode, f)

page_items_of(m, files) == [k \in 1..Len(files) |-> make_item_of(m, files[k])]

page_items(files) == page_items_of(mode, files)

\* the record the walker of export m appends: the item with path (and link) set
make_row_of(m, item, item_path) ==
  [id |-> item.id, name |-> item.name, type |-> item.type,
   is_folder |-> item.is_folder, size_kb |-> item.size_kb,
   path |-> item_path,
   link |-> IF m = "index" THEN item.link ELSE create_share_link(item)]

make_row(item, item_path) == make_row_of(mode, item, item_path)

list_insert_front(rows, row) == <<row>> \o rows

\* metadata_rows.append(item)
list_append(rows, row) == Append(rows, row)

\* activation record of a walker call
Frame(fid, path) ==
  [folder_id |-> fid, parent_path |-> path, contents |-> <<>>, idx |-> 1,
   at |-> "call"]

should_recurse_wrong_key(item) == FALSE

\* item.get("is_folder", False)
should_recurse(item) == item.is_folder

recurse_frame_name_only(item, item_path) == Frame(item.id, item.name)

\* the recursive call get_metadata(item["id"], item_path, metadata_rows)
recurse_frame(item, item_path) == Frame(item.id, item_path)

push_deferred(stk, fr) ==
  SubSeq(stk, 1, Len(stk) - 1) \o <<fr, stk[Len(stk)]>>

\* a call runs before its caller continues
push(stk, fr) == Append(stk, fr)

Top == stack[Len(stack)]
SetTop(fr) == [stack EXCEPT ![Len(stack)] = fr]
Pop == SubSeq(stack, 1, Len(stack) - 1)

PeerTop == peer_stack[Len(peer_stack)]
PeerSetTop(fr) == [peer_stack EXCEPT ![Len(peer_stack)] = fr]
PeerPop == SubSeq(peer_stack, 1, Len(peer_stack) - 1)

write_csv(rows, file) ==
  IF rows = <<>> THEN file
  ELSE [exists |-> TRUE, header |-> fieldnames, rows |-> rows, writes |-> file.writes + 1]

NoFile == [exists |-> FALSE, header |-> <<>>, rows |-> <<>>, writes |-> 0]

(***************************************************************************)
(* Initial states.                                                         *)
(***************************************************************************)
InitEnv ==
  /\ drive \in { d \in Drives : WellFormed(d) }
  /\ names \in NameTables
  /\ page_len \in {1, MaxPageLen}
  /\ mode \in {"directory", "index"}

InitCommon ==
  /\ metadata_rows = <<>>
  /\ csv_file = NoFile
  /\ items = <<>>
  /\ page_token = NoToken
  /\ attempt = 0
  /\ sleep_time = 0
  /\ error = NoError
  /\ pages = <<>>
  /\ responses = <<>>
  /\ sleeps = <<>>
  /\ throttled = 0
  /\ listed = <<>>
  /\ peer_folder_id = RootId
  /\ peer_items = <<>>
  /\ peer_rows = <<>>

\* __main__ up to the call get_metadata(root_folder_id, root_folder_name, metadata_rows)
Init ==
  /\ InitEnv
  /\ sizes = ScenarioSizes
  /\ InitCommon
  /\ main_pc = "run"
  /\ stack = <<Frame(RootId, RootLabel)>>
  /\ peer_stack = <<Frame(RootId, RootLabel)>>
  /\ lister_pc = "idle"
  /\ folder_id = RootId
  /\ max_retries = DefaultMaxRetries

\* a direct call get_folder_contents(folder_id, max_retries=m); the lister
\* looks at the children of that one folder only, so the folder is the root
\* of a drive of depth 1
InitLister ==
  /\ InitEnv
  /\ sizes \in SizeTables
  /\ \A i \in 1..drive.n : drive.parent[i] = RootId
  /\ InitCommon
  /\ main_pc = "direct"
  /\ stack = <<>>
  /\ peer_stack = <<>>
  /\ lister_pc = "retry_loop"
  /\ folder_id = RootId
  /\ max_retries \in 0..MaxRetriesArg

(***************************************************************************)
(* The lister: get_folder_contents / get_folder_metadata.                  *)
(***************************************************************************)
Requesting == lister_pc = "retry_loop" /\ in_range(attempt, max_retries)

\* the histories of the page being requested: fresh at its first request
PageResponses == IF attempt = 0 THEN <<>> ELSE responses
PageSleeps == IF attempt = 0 THEN <<>> ELSE sleeps

ExecuteOk_keeps_attempt ==
  /\ Requesting
  /\ LET results == ServiceList(folder_id, page_token)
     IN /\ items' = items \o page_items(results.files)
        /\ page_token' = results.nextPageToken
        /\ lister_pc' = IF results.nextPageToken = NoToken THEN "returned" ELSE "retry_loop"
        /\ pages' = Append(pages,
                      [token |-> page_token, next |-> results.nextPageToken])
  /\ responses' = Append(PageResponses, [token |-> page_token, status |-> OkStatus])
  /\ sleeps' = PageSleeps
  /\ attempt' = attempt
  /\ UNCHANGED <<env_vars, main_pc, stack, metadata_rows, csv_file, folder_id,
                 max_retries, sleep_time, error, throttled, listed>>
  /\ peer_items' = peer_items
        \o page_items_of(other(mode), ServiceList(peer_folder_id, page_token).files)
  /\ UNCHANGED <<peer_folder_id, peer_stack, peer_rows>>

\* call.execute() returns a page: append its items, take the next token
ExecuteOk ==
  /\ Requesting
  /\ LET results == ServiceList(folder_id, page_token)
     IN /\ items' = items \o page_items(results.files)
        /\ page_token' = results.nextPageToken
        /\ lister_pc' = IF results.nextPageToken = NoToken THEN "returned" ELSE "retry_loop"
        /\ pages' = Append(pages,
                      [token |-> page_token, next |-> results.nextPageToken])
  /\ responses' = Append(PageResponses, [token |-> page_token, status |-> OkStatus])
  /\ sleeps' = PageSleeps
  /\ attempt' = 0
  /\ UNCHANGED <<env_vars, main_pc, stack, metadata_rows, csv_file, folder_id,
                 max_retries, sleep_time, error, throttled, listed>>
  /\ peer_items' = peer_items
        \o page_items_of(other(mode), ServiceList(peer_folder_id, page_token).files)
  /\ UNCHANGED <<peer_folder_id, peer_stack, peer_rows>>

\* the retry index handed to exponential_backoff_sleep
backoff_arg_one_based(k) == k + 1

backoff_arg(k) == k

\* call.execute() raises HttpError 429: exponential_backoff_sleep(attempt)
ExecuteRateLimited ==
  /\ Requesting
  /\ attempt > 0 \/ throttled < MaxThrottledPages
  /\ \E t \in uniform(0, max_sleep(backoff_arg(attempt))) : sleep_time' = t
  /\ lister_pc' = "sleeping"
  /\ sleeps' = Append(PageSleeps, backoff_arg(attempt))
  /\ responses' = Append(PageResponses,
                    [token |-> page_token, status |-> RateLimitStatus])
  /\ throttled' = IF attempt = 0 THEN throttled + 1 ELSE throttled
  /\ UNCHANGED <<env_vars, main_pc, stack, metadata_rows, csv_file, folder_id,
                 max_retries, items, page_token, attempt, error, pages, listed>>
  /\ UNCHANGED peer_vars

BackoffWake_restart_paging ==
  /\ lister_pc = "sleeping"
  /\ lister_pc' = "retry_loop"
  /\ attempt' = attempt + 1
  /\ sleep_time' = 0
  /\ page_token' = NoToken
  /\ UNCHANGED <<env_vars, main_pc, stack, metadata_rows, csv_file, folder_id,
                 max_retries, items, error, pages, responses, sleeps, throttled, listed>>
  /\ UNCHANGED peer_vars

BackoffWake_same_attempt ==
  /\ lister_pc = "sleeping"
  /\ lister_pc' = "retry_loop"
  /\ attempt' = attempt
  /\ sleep_time' = 0
  /\ UNCHANGED <<env_vars, main_pc, stack, metadata_rows, csv_file, folder_id,
                 max_retries, items, page_token, error, pages, responses, sleeps, throttled, listed>>
  /\ UNCHANGED peer_vars

\* time.sleep returns; continue with the next iteration of the for loop
BackoffWake ==
  /\ lister_pc = "sleeping"
  /\ lister_pc' = "retry_loop"
  /\ attempt' = attempt + 1
  /\ sleep_time' = 0
  /\ UNCHANGED <<env_vars, main_pc, stack, metadata_rows, csv_file, folder_id,
                 max_retries, items, page_token, error, pages, responses, sleeps, throttled, listed>>
  /\ UNCHANGED peer_vars

ExecuteOtherError_retried ==
  /\ Requesting
  /\ \E st \in OtherStatuses :
       responses' = Append(PageResponses, [token |-> page_token, status |-> st])
  /\ \E t \in uniform(0, max_sleep(attempt)) : sleep_time' = t
  /\ lister_pc' = "sleeping"
  /\ sleeps' = Append(PageSleeps, attempt)
  /\ UNCHANGED <<env_vars, main_pc, stack, metadata_rows, csv_file, folder_id,
                 max_retries, items, page_token, attempt, error, pages,
                 throttled, listed>>
  /\ UNCHANGED peer_vars

\* call.execute() raises another HttpError: print and re-raise
ExecuteOtherError ==
  /\ Requesting
  /\ \E st \in OtherStatuses :
       /\ error' = HttpError(st)
       /\ responses' = Append(PageResponses, [token |-> page_token, status |-> st])
  /\ sleeps' = PageSleeps
  /\ lister_pc' = "raised"
  /\ UNCHANGED <<env_vars, main_pc, stack, metadata_rows, csv_file, folder_id,
                 max_retries, items, page_token, attempt, sleep_time, pages,
                 throttled, listed>>
  /\ UNCHANGED peer_vars

\* the for loop runs out: else-clause raises RuntimeError
RetriesExhausted ==
  /\ lister_pc = "retry_loop"
  /\ ~in_range(attempt, max_retries)
  /\ error' = RuntimeError
  /\ lister_pc' = "raised"
  /\ UNCHANGED <<env_vars, main_pc, stack, metadata_rows, csv_file, folder_id,
                 max_retries, items, page_token, attempt, sleep_time, pages, responses,
                 sleeps, throttled, listed>>
  /\ UNCHANGED peer_vars

(***************************************************************************)
(* The walker: get_metadata / traverse_folder.                             *)
(***************************************************************************)
\* contents = get_folder_contents(folder_id): enter the lister
WalkerCall ==
  /\ main_pc = "run"
  /\ stack # <<>>
  /\ Top.at = "call"
  /\ lister_pc = "idle"
  /\ lister_pc' = "retry_loop"
  /\ folder_id' = Top.folder_id
  /\ max_retries' = DefaultMaxRetries
  /\ items' = <<>>
  /\ page_token' = NoToken
  /\ attempt' = 0
  /\ pages' = <<>>
  /\ responses' = <<>>
  /\ sleeps' = <<>>
  /\ stack' = SetTop([Top EXCEPT !.at = "wait"])
  /\ UNCHANGED <<env_vars, main_pc, metadata_rows, csv_file, sleep_time, error,
                 throttled, listed>>
  /\ peer_folder_id' = PeerTop.folder_id
  /\ peer_items' = <<>>
  /\ peer_stack' = PeerSetTop([PeerTop EXCEPT !.at = "wait"])
  /\ UNCHANGED peer_rows

\* the lister returns items
WalkerReceive ==
  /\ main_pc = "run"
  /\ stack # <<>>
  /\ Top.at = "wait"
  /\ lister_pc = "returned"
  /\ stack' = SetTop([Top EXCEPT !.at = "loop", !.contents = items])
  /\ lister_pc' = "idle"
  /\ items' = <<>>
  /\ page_token' = NoToken
  /\ pages' = <<>>
  /\ responses' = <<>>
  /\ sleeps' = <<>>
  /\ listed' = Append(listed, folder_id)
  /\ UNCHANGED <<env_vars, main_pc, metadata_rows, csv_file, folder_id,
                 max_retries, attempt, sleep_time, error, throttled>>
  /\ peer_stack' = PeerSetTop([PeerTop EXCEPT !.at = "loop", !.contents = peer_items])
  /\ peer_items' = <<>>
  /\ UNCHANGED <<peer_folder_id, peer_rows>>

\* one iteration of "for item in contents"
WalkerItem ==
  /\ main_pc = "run"
  /\ stack # <<>>
  /\ lister_pc = "idle"
  /\ Top.at = "loop"
  /\ Top.idx <= Len(Top.contents)
  /\ LET item == Top.contents[Top.idx]
         item_path == join(Top.parent_path, item.name)
         caller == SetTop([Top EXCEPT !.idx = Top.idx + 1])
     IN /\ metadata_rows' = list_append(metadata_rows, make_row(item, item_path))
        /\ stack' = IF should_recurse(item)
                    THEN push(caller, recurse_frame(item, item_path))
                    ELSE caller
  /\ UNCHANGED <<env_vars, main_pc, csv_file, lister_vars, error, pages, responses,
                 sleeps, throttled, listed>>
  /\ LET item == PeerTop.contents[PeerTop.idx]
         item_path == join(PeerTop.parent_path, item.name)
         caller == PeerSetTop([PeerTop EXCEPT !.idx = PeerTop.idx + 1])
     IN /\ peer_rows' = list_append(peer_rows, make_row_of(other(mode), item, item_path))
        /\ peer_stack' = IF should_recurse(item)
                         THEN push(caller, recurse_frame(item, item_path))
                         ELSE caller
  /\ UNCHANGED <<peer_folder_id, peer_items>>

\* the for loop is over: the call returns
WalkerReturn ==
  /\ main_pc = "run"
  /\ stack # <<>>
  /\ lister_pc = "idle"
  /\ Top.at = "loop"
  /\ Top.idx > Len(Top.contents)
  /\ stack' = Pop
  /\ UNCHANGED <<env_vars, main_pc, metadata_rows, csv_file, lister_vars, error,
                 pages, responses, sleeps, throttled, listed>>
  /\ peer_stack' = PeerPop
  /\ UNCHANGED <<peer_folder_id, peer_items, peer_rows>>

\* no walker call has a handler: the exception of the lister passes through
\* every active call of get_metadata / traverse_folder
unwind(stk) == <<>>

(***************************************************************************)
(* __main__.                                                               *)
(***************************************************************************)
\* the walk returned: write_csv(metadata_rows, csv_path), then the else branch
MainWriteCsv ==
  /\ main_pc = "run"
  /\ stack = <<>>
  /\ lister_pc = "idle"
  /\ csv_file' = write_csv(metadata_rows, csv_file)
  /\ main_pc' = "complete"
  /\ UNCHANGED <<env_vars, stack, metadata_rows, lister_vars, error, pages, responses,
                 sleeps, throttled, listed>>
  /\ UNCHANGED peer_vars

MainExcept_skip_folder ==
  /\ main_pc = "run"
  /\ lister_pc = "raised"
  /\ stack' = Pop
  /\ lister_pc' = "idle"
  /\ error' = NoError
  /\ UNCHANGED <<env_vars, main_pc, metadata_rows, csv_file, folder_id,
                 max_retries, items, page_token, attempt, sleep_time, pages,
                 responses, sleeps, throttled, listed>>
  /\ peer_stack' = PeerPop
  /\ UNCHANGED <<peer_folder_id, peer_items, peer_rows>>

MainExcept_writes_rows ==
  /\ main_pc = "run"
  /\ lister_pc = "raised"
  /\ stack' = unwind(stack)
  /\ main_pc' = "aborted"
  /\ csv_file' = write_csv(metadata_rows, csv_file)
  /\ UNCHANGED <<env_vars, metadata_rows, lister_vars, error, pages,
                 responses, sleeps, throttled, listed>>
  /\ peer_stack' = unwind(peer_stack)
  /\ UNCHANGED <<peer_folder_id, peer_items, peer_rows>>

\* the exception reaches the try of __main__:
\* except Exception as e: print "Aborted due to error"
MainExcept ==
  /\ main_pc = "run"
  /\ lister_pc = "raised"
  /\ stack' = unwind(stack)
  /\ main_pc' = "aborted"
  /\ UNCHANGED <<env_vars, metadata_rows, csv_file, lister_vars, error, pages,
                 responses, sleeps, throttled, listed>>
  /\ peer_stack' = unwind(peer_stack)
  /\ UNCHANGED <<peer_folder_id, peer_items, peer_rows>>

Next ==
  \/ ExecuteOk
  \/ ExecuteRateLimited
  \/ BackoffWake
  \/ ExecuteOtherError
  \/ RetriesExhausted
  \/ WalkerCall
  \/ WalkerReceive
  \/ WalkerItem
  \/ WalkerReturn
  \/ MainWriteCsv
  \/ MainExcept

Spec == Init /\ [][Next]_vars

\* the interpreter runs the next statement of __main__ whenever there is one:
\* time.sleep returns and every request is answered
FairSpec == Spec /\ WF_vars(Next)

NextLister ==
  \/ ExecuteOk
  \/ ExecuteRateLimited
  \/ BackoffWake
  \/ ExecuteOtherError
  \/ RetriesExhausted

ListerSpec == InitLister /\ [][NextLister]_vars

(***************************************************************************)
(* Reference notions the properties are stated with.                       *)
(***************************************************************************)
RECURSIVE Descendants(_, _)
\* the items reachable from folder f, f excluded
Descendants(d, f) ==
  LET cs == { i \in 1..d.n : d.parent[i] = f }
  IN cs \cup UNION { Descendants(d, c) : c \in cs }

RECURSIVE PreorderFrom(_, _, _)
\* depth-first pre-order of the subtrees of the children k, k+1, .. of f
PreorderFrom(d, f, k) ==
  LET ch == Children(d, f)
  IN IF k > Len(ch) THEN <<>>
     ELSE <<ch[k]>>
          \o (IF d.mime[ch[k]] = FolderMime THEN PreorderFrom(d, ch[k], 1) ELSE <<>>)
          \o PreorderFrom(d, f, k + 1)

Preorder(d) == PreorderFrom(d, RootId, 1)

IsPrefix(s, t) == Len(s) <= Len(t) /\ \A k \in 1..Len(s) : s[k] = t[k]

Ids(rows) == [k \in 1..Len(rows) |-> rows[k].id]

WalkDone == main_pc # "direct" /\ stack = <<>> /\ error = NoError

RECURSIVE Streak(_, _)
\* number of rate-limit answers directly before position i of a log
Streak(log, i) ==
  IF i <= 1 \/ i > Len(log) + 1 THEN 0
  ELSE IF log[i - 1].status = RateLimitStatus THEN 1 + Streak(log, i - 1)
  ELSE 0

TrailingStreak(log) == Streak(log, Len(log) + 1)

Statuses(log) == [k \in 1..Len(log) |-> log[k].status]

(***************************************************************************)
(* C1: when a walk from the root has returned without error, the           *)
(* accumulator holds exactly one record per file or folder reachable from  *)
(* the root, the root excluded, so the record count is the number of       *)
(* reachable files plus folders (a fortiori when the service never         *)
(* answered with an error).                                                *)
(***************************************************************************)
C1_OneRecordPerReachableItem ==
  WalkDone =>
    LET reachable == Descendants(drive, RootId)
    IN /\ Len(metadata_rows) = Cardinality(reachable)
       /\ \A i \in reachable :
            Cardinality({ k \in 1..Len(metadata_rows) : metadata_rows[k].id = i }) = 1
       /\ \A k \in 1..Len(metadata_rows) : metadata_rows[k].id \in reachable

C1_Witness ==
  /\ main_pc = "complete"
  /\ throttled = 0
  /\ Len(metadata_rows) = MaxItems
  /\ \E k \in 1..Len(metadata_rows) : drive.parent[metadata_rows[k].id] # RootId

(***************************************************************************)
(* C2: every record of the accumulator has path = join(path of the record  *)
(* of its parent folder, its name); a direct child of the root has         *)
(* path = join(root label, name).                                          *)
(***************************************************************************)
C2_PathIsJoinOfParentPath ==
  main_pc # "direct" =>
    \A k \in 1..Len(metadata_rows) :
      LET r == metadata_rows[k]
          p == drive.parent[r.id]
      IN /\ r.name = NameOf(names, r.id)
         /\ IF p = RootId
            THEN r.path = join(RootLabel, r.name)
            ELSE \E j \in 1..(k - 1) :
                   /\ metadata_rows[j].id = p
                   /\ r.path = join(metadata_rows[j].path, r.name)

C2_Witness ==
  /\ main_pc = "complete"
  /\ \E k \in 1..Len(metadata_rows) :
       /\ drive.parent[metadata_rows[k].id] # RootId
       /\ metadata_rows[k].path = <<"R", "/", "a", "/", "b">>

(***************************************************************************)
(* C3: the accumulator is in depth-first pre-order, siblings in listing    *)
(* order: it is always a prefix of the pre-order of the tree and the whole *)
(* of it when the walk returns; folders are listed in pre-order, and while *)
(* a folder below the root is being listed its own record is the last one  *)
(* accumulated, so everything before it in pre-order (the whole subtree of *)
(* every earlier sibling) has been listed and recorded already.            *)
(***************************************************************************)
C3_DepthFirstPreorder ==
  main_pc # "direct" =>
    LET order == Preorder(drive)
        folders == <<RootId>> \o SelectSeq(order, LAMBDA i : drive.mime[i] = FolderMime)
    IN /\ IsPrefix(Ids(metadata_rows), order)
       /\ WalkDone => Ids(metadata_rows) = order
       /\ IsPrefix(listed, folders)
       /\ lister_pc # "idle" =>
            /\ IsPrefix(Append(listed, folder_id), folders)
            /\ folder_id # RootId =>
                 /\ metadata_rows # <<>>
                 /\ metadata_rows[Len(metadata_rows)].id = folder_id

C3_Witness ==
  /\ lister_pc = "retry_loop"
  /\ Len(listed) = 3
  /\ drive.parent[folder_id] = RootId
  /\ \E i \in 1..drive.n :
       /\ i # folder_id
       /\ drive.parent[i] = RootId
       /\ \E j \in 1..drive.n : drive.parent[j] = i /\ drive.mime[j] = FolderMime

RECURSIVE ListAll(_, _)
\* the listing of folder f from a token on when no request fails
ListAll(f, token) ==
  LET r == ServiceList(f, token)
  IN page_items(r.files)
     \o (IF r.nextPageToken = NoToken THEN <<>> ELSE ListAll(f, r.nextPageToken))

RECURSIVE PagesReceived(_, _)
\* the items of the first k pages of a log of pages
PagesReceived(log, k) ==
  IF k = 0 THEN <<>>
  ELSE PagesReceived(log, k - 1)
       \o page_items(ServiceList(folder_id, log[k].token).files)

\* the page last requested is complete
PageDone == responses # <<>> /\ responses[Len(responses)].status = OkStatus

\* the token the page last requested has to be requested with
ExpectedToken ==
  LET before == IF PageDone THEN Len(pages) - 1 ELSE Len(pages)
  IN IF before = 0 THEN NoToken ELSE pages[before].next

\* the positions of the rate-limit answers in a log
RateLimitedAt(log) ==
  SelectSeq([k \in 1..Len(log) |-> k], LAMBDA k : log[k].status = RateLimitStatus)

(***************************************************************************)
(* C4: the lister sends the first request without a token and every later  *)
(* request with the continuation token of the last page response (after a  *)
(* rate-limit answer: the same token again); it keeps requesting while the *)
(* last page carried a token; what it holds, and in the end returns, is    *)
(* the concatenation of the pages in page order, which on return is the    *)
(* folder's children, each exactly once, in listing order.                 *)
(***************************************************************************)
C4_PagesConcatenated ==
  /\ \A k \in 1..Len(responses) : responses[k].token = ExpectedToken
  /\ \A k \in 1..Len(pages) :
       pages[k].token = IF k = 1 THEN NoToken ELSE pages[k - 1].next
  /\ PageDone => pages # <<>> /\ pages[Len(pages)].token = ExpectedToken
  /\ lister_pc \in {"retry_loop", "sleeping", "returned", "raised"} =>
       items = PagesReceived(pages, Len(pages))
  /\ lister_pc = "returned" =>
       /\ PageDone
       /\ pages[Len(pages)].next = NoToken
       /\ Ids(items) = Children(drive, folder_id)
       /\ \A k \in 1..Len(items) : items[k].name = NameOf(names, items[k].id)
  /\ \A k \in 1..Len(pages) :
       pages[k].next # NoToken =>
         (k < Len(pages) \/ lister_pc \in {"retry_loop", "sleeping", "raised"})

C4_Witness ==
  /\ lister_pc = "returned"
  /\ Len(items) = 3
  /\ Len(pages) >= 2
  /\ Len(responses) >= 3
  /\ responses[1].token # NoToken
  /\ responses[1].status = RateLimitStatus

(***************************************************************************)
(* C5: every rate-limit answer is followed by exactly one backoff sleep,   *)
(* and the sleep after the j-th consecutive rate-limit answer to a page    *)
(* request has retry index j-1; when the request then succeeds the lister  *)
(* returns the same sequence as with no rate-limiting.                     *)
(***************************************************************************)
C5_BackoffSleepsPerRateLimit ==
  /\ Len(sleeps) = Len(RateLimitedAt(responses))
  /\ \A m \in 1..Len(sleeps) :
       sleeps[m] = Streak(responses, RateLimitedAt(responses)[m])
  /\ lister_pc = "returned" => items = ListAll(folder_id, NoToken)

C5_Witness ==
  /\ lister_pc = "returned"
  /\ Statuses(responses) = <<RateLimitStatus, RateLimitStatus, OkStatus>>
  /\ sleeps = <<0, 1>>
  /\ Len(items) = 2

(***************************************************************************)
(* C6: a page request that was rate-limited max_retries times in a row is  *)
(* requested once more, so the lister has not raised the retries-exhausted *)
(* error after max_retries rate-limit answers (the service is able to      *)
(* answer the next request with a page).                                   *)
(***************************************************************************)
C6_RetriedMaxRetriesTimes ==
  (max_retries > 0 /\ TrailingStreak(responses) = max_retries) =>
    error # RuntimeError

(***************************************************************************)
(* C7: no page is requested more than max_retries times; the               *)
(* retries-exhausted error is raised exactly after max_retries rate-limit  *)
(* answers in a row to one page request (after no request at all when      *)
(* max_retries = 0) and no list request follows it.                        *)
(***************************************************************************)
C7_AtMostMaxRetriesRequests ==
  /\ \A k \in 1..Len(responses) : Streak(responses, k) + 1 <= max_retries
  /\ error = RuntimeError =>
       /\ lister_pc = "raised"
       /\ TrailingStreak(responses) = max_retries
       /\ max_retries = 0 => responses = <<>>
  /\ (lister_pc = "retry_loop" /\ TrailingStreak(responses) = max_retries) =>
       ENABLED RetriesExhausted

C7_Witness ==
  /\ error = RuntimeError
  /\ max_retries = 2
  /\ Len(pages) = 1
  /\ Statuses(responses) = <<RateLimitStatus, RateLimitStatus>>

(***************************************************************************)
(* C8: while the lister sleeps before retry k, 0 <= k < max_retries, the   *)
(* sleep is at least 0 and strictly below min(2^k, 64) seconds             *)
(* (sleep_time counts 1/RandRes seconds).                                  *)
(***************************************************************************)
C8_SleepBelowCappedPowerOfTwo ==
  lister_pc = "sleeping" =>
    /\ attempt \in 0..(max_retries - 1)
    /\ sleep_time >= 0
    /\ sleep_time < 2 ^ attempt * RandRes
    /\ sleep_time < 64 * RandRes

C8_Witness ==
  /\ lister_pc = "sleeping"
  /\ attempt = 7
  /\ sleep_time = 64 * (RandRes - 1)

(***************************************************************************)
(* C9: an answer with an error status other than 429 is the last request   *)
(* of the run and raises HttpError with that status; from then on there is *)
(* no backoff sleep, no list request and no new record: the next step      *)
(* leaves every walker call and ends the run as aborted, and no output     *)
(* file exists.                                                            *)
(***************************************************************************)
C9_OtherErrorAborts ==
  [][ /\ \A k \in 1..Len(responses') :
           responses'[k].status \notin {OkStatus, RateLimitStatus} =>
             /\ k = Len(responses')
             /\ error' = HttpError(responses'[k].status)
      /\ error'.type = "HttpError" =>
           /\ error'.status # RateLimitStatus
           /\ ~csv_file'.exists
           /\ main_pc' # "complete"
           /\ sleep_time' = 0
           /\ lister_pc' = "raised"
      /\ error.type = "HttpError" =>
           /\ error' = error
           /\ responses' = responses
           /\ sleeps' = sleeps
           /\ metadata_rows' = metadata_rows
           /\ listed' = listed
           /\ main_pc = "run"
           /\ main_pc' = "aborted"
           /\ stack' = <<>>
    ]_vars

C9_Witness ==
  /\ main_pc = "aborted"
  /\ error.type = "HttpError"
  /\ folder_id # RootId
  /\ Len(pages) = 1
  /\ Statuses(responses) = <<error.status>>
  /\ ~csv_file.exists
  /\ metadata_rows # <<>>

(***************************************************************************)
(* C10: once the retries for a page are exhausted the error stays in       *)
(* flight: the next step leaves every enclosing walker call and ends the   *)
(* run as aborted; no folder is listed, no request sent and no record      *)
(* added afterwards; the run never completes and no output file exists.    *)
(***************************************************************************)
C10_ExhaustionAbortsRun ==
  [][ /\ error'.type = "RuntimeError" =>
           /\ ~csv_file'.exists
           /\ main_pc' # "complete"
           /\ lister_pc' = "raised"
      /\ error.type = "RuntimeError" =>
           /\ error' = error
           /\ responses' = responses
           /\ sleeps' = sleeps
           /\ metadata_rows' = metadata_rows
           /\ listed' = listed
           /\ main_pc = "run"
           /\ main_pc' = "aborted"
           /\ stack' = <<>>
    ]_vars

C10_Witness ==
  /\ main_pc = "aborted"
  /\ error = RuntimeError
  /\ folder_id # RootId
  /\ drive.parent[folder_id] = RootId
  /\ \E i \in 1..drive.n :
       i > folder_id /\ drive.parent[i] = RootId /\ drive.mime[i] = FolderMime
  /\ listed = <<RootId>>
  /\ ~csv_file.exists

C12_SuccessWroteFile ==
  main_pc = "complete" =>
    /\ csv_file.exists
    /\ csv_file.writes = 1
    /\ csv_file.header = fieldnames
    /\ csv_file.rows = metadata_rows

RECURSIVE Level(_, _)
\* number of edges from the root folder to item i
Level(d, i) == IF i = RootId THEN 0 ELSE 1 + Level(d, d.parent[i])

\* deepest nesting of a folder below the root (0 when the root has no
\* subfolder); never more than the depth of the tree
FolderDepth(d) ==
  LET ls == { Level(d, i) : i \in Folders(d) }
  IN CHOOSE m \in ls : \A l \in ls : l <= m

TreeDepth(d) ==
  LET ls == { Level(d, i) : i \in 0..d.n }
  IN CHOOSE m \in ls : \A l \in ls : l <= m

Terminated == main_pc \in {"complete", "aborted"}

\* pages the active lister call still has to fetch, the current one included
RemainingPages ==
  LET ch == Children(drive, folder_id)
      first == IF page_token = NoToken THEN 1 ELSE page_token
  IN IF Len(ch) = 0 THEN 1
     ELSE (Len(ch) - first + 1 + page_len - 1) \div page_len

\* steps one page can take at most: max_retries times answer and sleep
PageCost == 2 * max_retries + 2

\* steps the active lister call can still take
ListerVariant ==
  CASE lister_pc = "retry_loop" ->
         RemainingPages * PageCost + 2 * (max_retries - attempt) + 1
    [] lister_pc = "sleeping" ->
         RemainingPages * PageCost + 2 * (max_retries - attempt)
    [] OTHER -> 0

ListerVariantMax == (drive.n + 1) * PageCost + 2 * max_retries + 1

FrameVariant(fr) ==
  CASE fr.at = "call" -> ListerVariantMax + 3
    [] fr.at = "wait" -> 2
    [] OTHER -> 1

RECURSIVE StackVariant(_)
StackVariant(stk) ==
  IF stk = <<>> THEN 0
  ELSE FrameVariant(stk[1]) + StackVariant(Tail(stk))

\* a bound on the steps that are left of the run
Variant ==
  (IF Terminated THEN 0 ELSE 1)
  + StackVariant(stack)
  + ListerVariant
  + (ListerVariantMax + 4) * (drive.n - Len(metadata_rows))

(***************************************************************************)
(* C13: for every finite tree and every pattern of service answers the     *)
(* walk ends, completed or aborted: every step lowers a natural number     *)
(* that bounds the steps left (pages, attempts, items and calls still to   *)
(* come), and a run that has not ended always has a next step.  The number *)
(* of nested recursive walker calls below the root call never exceeds the  *)
(* depth of the tree (it is bounded by the deepest folder).                *)
(***************************************************************************)
C13_WalkTerminates ==
  /\ [][Variant' < Variant]_vars
  /\ [](/\ Variant >= 0
        /\ ~Terminated => ENABLED <<Next>>_vars
        /\ Len(stack) - 1 <= FolderDepth(drive)
        /\ FolderDepth(drive) <= TreeDepth(drive))

\* under the fairness of FairSpec the run reaches its end
WalkEnds == <>Terminated

C13_Witness ==
  /\ Terminated
  /\ FolderDepth(drive) = MaxItems
  /\ Len(listed) = MaxItems + 1
  /\ throttled >= 1

\* no two items below the same folder carry the same name
SiblingNamesUnique ==
  \A i, j \in 1..drive.n :
    (i # j /\ drive.parent[i] = drive.parent[j])
      => NameOf(names, i) # NameOf(names, j)

\* no two records of the accumulator carry the same path
PathsUnique ==
  \A k, l \in 1..Len(metadata_rows) :
    k # l => metadata_rows[k].path # metadata_rows[l].path

\* a non-empty name without the path separator
PlainName(nm) == nm # <<>> /\ \A k \in 1..Len(nm) : nm[k] # sep

AllNamesPlain == \A i \in 1..drive.n : PlainName(NameOf(names, i))

(***************************************************************************)
(* C14: in the output of a completed run the paths are unique exactly when *)
(* sibling names are unique at every level, whatever names the service     *)
(* returns.  os.path.join does not escape the separator: the child "b" of  *)
(* folder "a" and its sibling "a/b" share a path although no two siblings  *)
(* share a name, and a name starting with the separator loses the path of  *)
(* its parent.                                                             *)
(***************************************************************************)
C14_PathsUniqueIffSiblingNamesUnique ==
  main_pc = "complete" => (PathsUnique <=> SiblingNamesUnique)

(***************************************************************************)
(* What the path computation does guarantee: two siblings with the same    *)
(* name always give two records with the same path, and when every item    *)
(* name is non-empty and free of the path separator, the paths are unique  *)
(* exactly when sibling names are unique at every level.                   *)
(***************************************************************************)
PathsUniqueForPlainNames ==
  main_pc = "complete" =>
    /\ ~SiblingNamesUnique => ~PathsUnique
    /\ AllNamesPlain => (PathsUnique <=> SiblingNamesUnique)

RECURSIVE DecimalValue(_)
\* the number a decimal string denotes, most significant digit first
DecimalValue(s) ==
  IF s = <<>> THEN 0
  ELSE s[1] * 10 ^ (Len(s) - 1) + DecimalValue(Tail(s))

(***************************************************************************)
(* C15: every record of the lister has is_folder true exactly when the     *)
(* type of the item is the folder content type; its size_kb is 0 for a     *)
(* folder (whatever size is reported) and for an item without size field,  *)
(* and otherwise the number of hundredths nearest to size / 1024, the even *)
(* one when two are equally near (round(size / 1024, 2)).                  *)
(***************************************************************************)
C15_SizeKbRounded ==
  \A k \in 1..Len(items) :
    LET it == items[k]
        sz == SizeOf(sizes, it.id)
        err == it.size_kb * 1024 - DecimalValue(sz.digits) * 100
    IN /\ it.type = drive.mime[it.id]
       /\ it.is_folder <=> (it.type = FolderMime)
       /\ it.is_folder => it.size_kb = 0
       /\ ~sz.present => it.size_kb = 0
       /\ (~it.is_folder /\ sz.present) =>
            /\ -512 <= err /\ err <= 512
            /\ (err = 512 \/ err = -512) => it.size_kb % 2 = 0

C15_Witness ==
  /\ lister_pc = "returned"
  /\ Len(items) = MaxItems
  /\ ~items[1].is_folder /\ items[1].size_kb = 38
  /\ items[2].is_folder /\ SizeOf(sizes, 2).present /\ items[2].size_kb = 0
  /\ ~items[3].is_folder /\ ~SizeOf(sizes, 3).present /\ items[3].size_kb = 0

(***************************************************************************)
(* C16: in directory mode the link of every record is determined by its id *)
(* and is_folder alone: https://drive.google.com/drive/folders/<id>        *)
(* ?usp=drivesdk for a folder, https://drive.google.com/file/d/<id>        *)
(* ?usp=drivesdk otherwise; so records that agree on id and is_folder      *)
(* agree on the link, whatever their name, path or position.               *)
(***************************************************************************)
C16_ShareLinkFromIdAndKind ==
  mode = "directory" =>
    /\ \A k \in 1..Len(metadata_rows) :
         LET r == metadata_rows[k]
         IN /\ r.link.id = r.id
            /\ r.link.suffix = "?usp=drivesdk"
            /\ r.is_folder =>
                 r.link.prefix = "https://drive.google.com/drive/folders/"
            /\ ~r.is_folder =>
                 r.link.prefix = "https://drive.google.com/file/d/"
    /\ \A k, l \in 1..Len(metadata_rows) :
         (/\ metadata_rows[k].id = metadata_rows[l].id
          /\ metadata_rows[k].is_folder = metadata_rows[l].is_folder)
           => metadata_rows[k].link = metadata_rows[l].link

C16_Witness ==
  /\ mode = "directory"
  /\ main_pc = "complete"
  /\ \E k, l \in 1..Len(metadata_rows) :
       /\ metadata_rows[k].is_folder
       /\ ~metadata_rows[l].is_folder
       /\ metadata_rows[k].name = metadata_rows[l].name
       /\ metadata_rows[k].path # metadata_rows[l].path

(***************************************************************************)
(* C17: the accumulator only grows at its end: every step leaves it as it  *)
(* is or appends exactly one record behind the records it already holds,   *)
(* which keep their position and every field; so the accumulator of an     *)
(* earlier state is a prefix of the accumulator of every later state.      *)
(***************************************************************************)
C17_AccumulatorAppendOnly ==
  [][\/ metadata_rows' = metadata_rows
     \/ /\ Len(metadata_rows') = Len(metadata_rows) + 1
        /\ SubSeq(metadata_rows', 1, Len(metadata_rows)) = metadata_rows]_vars

C17_Witness ==
  /\ main_pc = "run"
  /\ stack # <<>>
  /\ Len(metadata_rows) = MaxItems
  /\ Len(stack) >= 2

(***************************************************************************)
(* C18: the retry budget is per page.  When a page request has succeeded,  *)
(* and when the lister is entered for the next folder, the attempt counter *)
(* is 0; so the first backoff sleep of every page uses retry index 0, the  *)
(* counter equals the number of rate-limit answers to the current page     *)
(* alone, and the lister gives up only after max_retries rate-limit        *)
(* answers to one and the same page, however many rate-limit answers the   *)
(* pages before have absorbed.                                             *)
(***************************************************************************)
C18_RetryBudgetPerPage ==
  /\ (lister_pc \in {"retry_loop", "returned"} /\ (PageDone \/ responses = <<>>))
       => attempt = 0
  /\ sleeps # <<>> => sleeps[1] = 0
  /\ (lister_pc \in {"retry_loop", "sleeping"} /\ ~PageDone)
       => /\ attempt = IF lister_pc = "sleeping" THEN Len(responses) - 1
                       ELSE Len(responses)
          /\ \A k \in 1..Len(responses) :
               /\ responses[k].status = RateLimitStatus
               /\ responses[k].token = page_token
  /\ error = RuntimeError =>
       /\ Len(responses) = max_retries
       /\ \A k \in 1..Len(responses) :
            /\ responses[k].status = RateLimitStatus
            /\ responses[k].token = page_token

C18_Witness ==
  /\ throttled = MaxThrottledPages
  /\ listed # <<>>
  /\ pages # <<>>
  /\ error = RuntimeError
  /\ Len(responses) = DefaultMaxRetries

\* a lister record, a frame and an accumulator record without the link
NoLinkItem(it) ==
  [id |-> it.id, name |-> it.name, type |-> it.type,
   is_folder |-> it.is_folder, size_kb |-> it.size_kb]

NoLinkItems(its) == [k \in 1..Len(its) |-> NoLinkItem(its[k])]

NoLinkFrame(fr) ==
  [folder_id |-> fr.folder_id, parent_path |-> fr.parent_path,
   idx |-> fr.idx, at |-> fr.at, contents |-> NoLinkItems(fr.contents)]

NoLinkRow(r) ==
  [id |-> r.id, name |-> r.name, type |-> r.type, is_folder |-> r.is_folder,
   size_kb |-> r.size_kb, path |-> r.path]

====
